---------------------------- MODULE Spec2Model ----------------------------
(***************************************************************************)
(* A model of hirelala/audio2vtt.                                          *)
(*                                                                         *)
(*   Spec     the bounded job queue and worker pool of                     *)
(*            src/src/queue_manager.py (TranscriptionQueueManager) running *)
(*            on the asyncio event loop: every action is one uninterrupted *)
(*            run of a coroutine between two suspension points.            *)
(*   SegSpec  the segmenter of src/src/audio_subtitler.py                  *)
(*            (AudioSubtitler.segments_to_subtitle; convert_to_subtitles   *)
(*            of src/src/whisper_utils.py is the same loop).               *)
(*                                                                         *)
(* asyncio is modelled by its documented behaviour (CPython >= 3.12, where *)
(* wait_for awaits the coroutine in the calling task and CancelledError is *)
(* a BaseException): Queue.put suspends while the queue is full and never  *)
(* raises QueueFull; Queue(maxsize <= 0) is unbounded; Task.cancel() makes *)
(* the task's next resumption raise CancelledError at its await.           *)
(***************************************************************************)
EXTENDS Integers, Sequences, FiniteSets, TLC

\* ------------------------------------------------------------ bounds
\* MaxJobs submit_job calls, MaxTasks worker tasks over all start() calls,
\* num_workers up to MaxWorkers, max_queue_size up to MaxCap; an input of at
\* most MaxSegments raw segments holding at most MaxWords word tokens in all,
\* with word and segment times in 0..MaxWordTime; times of up to MaxHours
\* hours to format; up to MaxCues cues, with times in 0..MaxTime, to render.
MaxJobs == 3
MaxTasks == 2
MaxWorkers == 1
MaxCap == 1
MaxSegments == 2
MaxWords == 2
MaxTime == 1
MaxWordTime == 2
MaxHours == 1
MaxCues == 2

VARIABLES
    \* ---- TranscriptionQueueManager
    num_workers,       \* self.num_workers
    maxsize,           \* self.queue.maxsize
    is_running,        \* self.is_running
    workers,           \* self.workers: sequence of task ids
    jobs,              \* self.jobs: job id -> Job (job ids are 1..Len(jobs))
    queue,             \* self.queue._queue: sequence of job ids
    unfinished_tasks,  \* self.queue._unfinished_tasks
    putters,           \* self.queue._putters: submit calls suspended in put()
    getters,           \* self.queue._getters: workers suspended in get()
    \* ---- the coroutines
    task,              \* worker task id -> [pc, job, cancel]
    ntasks,            \* number of worker tasks created so far
    submit,            \* job id -> position of the submit_job call that made it
    stops,             \* stop() calls suspended in gather: the task sets awaited
    clock,             \* datetime.now(): a logical clock (see Now)
    \* ---- history
    deq,               \* job ids in the order queue.get() returned them
    calls,             \* job id -> number of times whisper_transcribe was started
    \* ---- segments_to_subtitle: its locals
    s_pc,              \* where the function is: "segment", "word", "after", "done"
    segment,           \* the raw segment of the current pass: [start, end, words_len]
    word_pos,          \* how many words of segment.words the inner loop has taken
    subtitles,         \* the cues emitted so far
    word_count,
    words_idx,
    seg_start,
    seg_end,
    seg_text,
    is_segmented,
    \* ---- history
    nsegments,         \* raw segments drawn from the input so far
    words_seen,        \* word tokens the inner loop has been given so far
    acc_words,         \* texts of the word tokens of the latest segment given
                       \* since the last cue was closed (or since the segment
                       \* began), the closing one included until the next
                       \* token arrives
    acc_start,         \* start of the first of those tokens
    kept_start,        \* start of the first of them that is not a stop
                       \* character alone arriving on the empty buffer
    last_end,          \* end of the latest word token of the input
    in_order,          \* the input so far is in time order (see InOrder)
    \* ---- _seconds_to_time: the last call
    seconds,           \* its argument, a float: the double nearest seconds/1000
    separator,
    time_str,          \* what it returned
    \* ---- _format_subtitles
    r_pc,              \* where the function is: "idle", "loop", "done"
    format,            \* its argument
    cues,              \* the elements of `subtitles` the loop has taken so far
    items,             \* its local list of rendered blocks
    content,           \* what it returned
    \* ---- cli.main
    c_pc,              \* where main is: "start", "parsed", "transcribed", "done", "exit"
    argv,              \* the options given on the command line
    args,              \* the namespace parse_args() returned
    transcribe_kwargs, \* the keyword arguments converter.transcribe was called with
    written            \* where the content went

qvars == <<num_workers, maxsize, is_running, workers, jobs, queue,
           unfinished_tasks, putters, getters, task, ntasks, submit, stops,
           clock, deq, calls>>

svars == <<s_pc, segment, word_pos, subtitles, word_count, words_idx,
           seg_start, seg_end, seg_text, is_segmented, nsegments, words_seen,
           acc_words, acc_start, kept_start, last_end, in_order>>

tvars == <<seconds, separator, time_str>>

\* The variables of the formatting functions.
rvars == <<r_pc, format, cues, items, content>>

cvars == <<c_pc, argv, args, transcribe_kwargs, written>>

fvars == <<tvars, rvars, cvars>>

vars == <<qvars, svars, fvars>>

\* ------------------------------------------------------------ values
\* datetime.now() is read off a logical clock that moves on whenever a worker
\* takes a job (line 126): two reads with no job taken between them give
\* the same time, and a read after it gives a later one.
JobIds == 1..MaxJobs
TaskIds == 1..MaxTasks

None == <<>>
Some(v) == <<v>>

PENDING == "pending"
PROCESSING == "processing"
COMPLETED == "completed"
FAILED == "failed"

QueueFullError == "Queue is full. Please try again later."

\* str(e) of what the transcriber can raise; an exception built without
\* arguments has the empty message.
ErrMsgs == {"invalid audio"}

\* The rendered text whisper_transcribe returns for job j's audio.
Rendered(j) == <<"WEBVTT", j>>

\* Job.__init__, lines 19-29. What is only written here and never again
\* (audio_data, filename, language, created_at) is left out of the record.
NewJob ==
    [status |-> PENDING, result |-> None, error |-> None,
     started_at |-> None, completed_at |-> None]

NoTask == [pc |-> "unborn", job |-> 0, cancel |-> FALSE]

NotFound == [not_found |-> TRUE]

\* asyncio.Queue.full()
Full(q) == IF maxsize <= 0 THEN FALSE ELSE Len(q) >= maxsize

Range(s) == {s[i] : i \in DOMAIN s}
Without(s, S) == SelectSeq(s, LAMBDA x : x \notin S)

Registered == DOMAIN jobs
Terminal(j) == jobs[j].status \in {COMPLETED, FAILED}
Live(t) == task[t].pc \notin {"unborn", "ended"}

\* ------------------------------------------------------------ text
\* A text is a sequence of characters. The model's alphabet has a letter, a
\* blank and two of the stop characters of STOP_CHARS (audio_subtitler.py
\* lines 5-13); the other stop characters are treated the same way.
STOP_CHARS == {".", "?"}
Whitespace == {" "}

RECURSIVE LStrip(_)
LStrip(s) == IF s # <<>> /\ Head(s) \in Whitespace THEN LStrip(Tail(s)) ELSE s

RECURSIVE RStrip(_)
RStrip(s) ==
    IF s # <<>> /\ s[Len(s)] \in Whitespace
    THEN RStrip(SubSeq(s, 1, Len(s) - 1))
    ELSE s

\* str.strip()
Strip(s) == RStrip(LStrip(s))

\* text[:-1]
DropLast(s) == SubSeq(s, 1, Len(s) - 1)

\* end_with_stop_char, lines 171-178
end_with_stop_char(text) == text # <<>> /\ text[Len(text)] \in STOP_CHARS

\* The inputs: word tokens and raw segments as the transcriber may give them,
\* each with start <= end. Times are whole numbers of an arbitrary unit: the
\* segmenter only compares and copies them.
Times == 0..MaxTime
Texts == {<<"a">>, <<"a", ".">>, <<"?">>, <<" ">>}
WordTimes == 0..MaxWordTime
Words ==
    {w \in [word : Texts, start : WordTimes, end : WordTimes] : w.start <= w.end}
Segments ==
    {g \in [start : WordTimes, end : WordTimes, words_len : 0..MaxWords] :
        g.start <= g.end}

\* A cue that is made to start where the recording starts.
CueFromZero(text, start, end) ==
    [msg |-> text, start_time |-> 0, end_time |-> end]

\* A cue whose text is trimmed when it is made.
CueTrimmed(text, start, end) ==
    [msg |-> Strip(text), start_time |-> start, end_time |-> end]

Cue(text, start, end) == [msg |-> text, start_time |-> start, end_time |-> end]

\* ------------------------------------------------------------ init
\* segments_to_subtitle at its entry, lines 77-78.
SInit ==
    /\ s_pc = "segment"
    /\ segment = [start |-> 0, end |-> 0, words_len |-> 0]
    /\ word_pos = 0
    /\ subtitles = <<>>
    /\ word_count = 0
    /\ words_idx = 0
    /\ seg_start = 0
    /\ seg_end = 0
    /\ seg_text = <<>>
    /\ is_segmented = FALSE
    /\ nsegments = 0
    /\ words_seen = 0
    /\ acc_words = <<>>
    /\ acc_start = 0
    /\ kept_start = 0
    /\ last_end = 0
    /\ in_order = TRUE

QInit ==
    /\ num_workers \in 1..MaxWorkers
    /\ maxsize \in 0..MaxCap
    /\ is_running = FALSE
    /\ workers = <<>>
    /\ jobs = <<>>
    /\ queue = <<>>
    /\ unfinished_tasks = 0
    /\ putters = <<>>
    /\ getters = <<>>
    /\ task = [t \in TaskIds |-> NoTask]
    /\ ntasks = 0
    /\ submit = [j \in JobIds |-> "none"]
    /\ stops = {}
    /\ clock = 0
    /\ deq = <<>>
    /\ calls = [j \in JobIds |-> 0]

\* ------------------------------------------------------------ asyncio.Queue
\* put_nowait(job), reached from put() at queue_manager.py:67 once the queue
\* is not full: the job is appended, counted as unfinished, and the first
\* waiting getter is woken; submit_job then returns the job id (line 73).
PutNowait(j, js, clk) ==
    /\ queue' = Append(queue, j)
    /\ unfinished_tasks' = unfinished_tasks + 1
    /\ IF getters # <<>>
       THEN /\ getters' = Tail(getters)
            /\ task' = [task EXCEPT ![Head(getters)].pc = "get_ready"]
       ELSE UNCHANGED <<getters, task>>
    /\ putters' = Without(putters, {j})
    /\ submit' = [submit EXCEPT ![j] = "returned"]
    /\ jobs' = js
    /\ clock' = clk

\* A submit that marks the job Failed when the queue is full and still waits
\* for a slot.
PutWaitMarkFailed(j, js, clk) ==
    /\ putters' = Append(Without(putters, {j}), j)
    /\ submit' = [submit EXCEPT ![j] = "blocked"]
    /\ jobs' = [js EXCEPT ![j].status = FAILED, ![j].error = Some(QueueFullError)]
    /\ clock' = clk
    /\ UNCHANGED <<queue, unfinished_tasks, getters, task>>

\* A put that suspends on a full queue without leaving its future among the
\* putters, so that no get wakes it.
PutWaitForgotten(j, js, clk) ==
    /\ putters' = Without(putters, {j})
    /\ submit' = [submit EXCEPT ![j] = "blocked"]
    /\ jobs' = js
    /\ clock' = clk
    /\ UNCHANGED <<queue, unfinished_tasks, getters, task>>

\* put() on a full queue: the call suspends on a putter future (it neither
\* raises QueueFull nor returns), so lines 68-71 are not executed.
PutWait(j, js, clk) ==
    /\ putters' = Append(Without(putters, {j}), j)
    /\ submit' = [submit EXCEPT ![j] = "blocked"]
    /\ jobs' = js
    /\ clock' = clk
    /\ UNCHANGED <<queue, unfinished_tasks, getters, task>>

\* A put that does not test full().
PutUnbounded(j, js, clk) == PutNowait(j, js, clk)

\* await self.queue.put(job): `while self.full(): await putter` then put_nowait
Put(j, js, clk) ==
    IF Full(queue) THEN PutWait(j, js, clk) ELSE PutNowait(j, js, clk)

\* ------------------------------------------------------------ submit_job
\* A new submit_job call: uuid4 gives a fresh id, the Job is registered, and
\* the call runs up to its return or to its suspension in put().
SubmitJob ==
    /\ Len(jobs) < MaxJobs
    /\ LET j == Len(jobs) + 1 IN
       Put(j, Append(jobs, NewJob), clock)
    /\ UNCHANGED <<num_workers, maxsize, is_running, workers, ntasks, stops,
                   deq, calls, svars, fvars>>

\* A submit_job call whose putter future was completed by a get resumes in
\* put(): it re-tests full() and either enqueues or waits again.
SubmitResume(j) ==
    /\ submit[j] = "woken"
    /\ Put(j, jobs, clock)
    /\ UNCHANGED <<num_workers, maxsize, is_running, workers, ntasks, stops,
                   deq, calls, svars, fvars>>

\* ------------------------------------------------------------ _worker
\* Lines 122-138: get() returns the head of the queue (waking the first
\* waiting putter), the job is marked Processing and stamped, and
\* whisper_transcribe is handed to the executor; the worker suspends on it.
TakeJob(t, js, clk, unf) ==
    LET j == Head(queue) IN
    /\ queue' = Tail(queue)
    /\ IF putters # <<>>
       THEN /\ putters' = Tail(putters)
            /\ submit' = [submit EXCEPT ![Head(putters)] = "woken"]
       ELSE UNCHANGED <<putters, submit>>
    /\ jobs' = [js EXCEPT ![j].status = PROCESSING, ![j].started_at = Some(clk)]
    /\ clock' = clk + 1
    /\ unfinished_tasks' = unf
    /\ deq' = Append(deq, j)
    /\ calls' = [calls EXCEPT ![j] = @ + 1]
    /\ getters' = Without(getters, {t})
    /\ task' = [task EXCEPT ![t] = [pc |-> "exec", job |-> j, cancel |-> FALSE]]

\* get() on an empty queue: the worker suspends on a getter future.
WaitForJob(t, js, clk, unf) ==
    /\ getters' = Append(Without(getters, {t}), t)
    /\ task' = [task EXCEPT ![t] = [pc |-> "get_wait", job |-> 0, cancel |-> FALSE]]
    /\ jobs' = js
    /\ clock' = clk
    /\ unfinished_tasks' = unf
    /\ UNCHANGED <<queue, putters, submit, deq, calls>>

\* The loop condition of line 119 is false, or the loop was left by `break`.
EndTask(t, js, clk, unf) ==
    /\ task' = [task EXCEPT ![t] = [pc |-> "ended", job |-> 0, cancel |-> FALSE]]
    /\ getters' = Without(getters, {t})
    /\ jobs' = js
    /\ clock' = clk
    /\ unfinished_tasks' = unf
    /\ UNCHANGED <<queue, putters, submit, deq, calls>>

\* get(): `while self.empty(): await getter` then get_nowait
Get(t, js, clk, unf) ==
    IF queue # <<>> THEN TakeJob(t, js, clk, unf) ELSE WaitForJob(t, js, clk, unf)

\* One pass through the top of the loop: `while self.is_running:` and get().
Poll(t, js, clk, unf) ==
    IF is_running THEN Get(t, js, clk, unf) ELSE EndTask(t, js, clk, unf)

WorkerFrame == UNCHANGED <<num_workers, maxsize, is_running, workers, ntasks,
                           stops, svars, fvars>>

\* The first run of a worker task created by start().
WorkerBegin(t) ==
    /\ task[t].pc = "new"
    /\ ~task[t].cancel
    /\ Poll(t, jobs, clock, unfinished_tasks)
    /\ WorkerFrame

\* wait_for's timeout of 1.0 s passes with no job: TimeoutError, `continue`.
WorkerTimeout(t) ==
    /\ task[t].pc = "get_wait"
    /\ ~task[t].cancel
    /\ Poll(t, jobs, clock, unfinished_tasks)
    /\ WorkerFrame

\* A worker whose getter future was completed by a put resumes in get().
WorkerWake(t) ==
    /\ task[t].pc = "get_ready"
    /\ ~task[t].cancel
    /\ Get(t, jobs, clock, unfinished_tasks)
    /\ WorkerFrame

\* The success handler without the stamp of line 143.
MarkCompletedNoStamp(js, j, now) ==
    [js EXCEPT ![j].status = COMPLETED, ![j].result = Some(Rendered(j))]

\* The success handler with the wrong status constant.
MarkCompletedAsPending(js, j, now) ==
    [js EXCEPT ![j].status = PENDING, ![j].result = Some(Rendered(j)),
               ![j].completed_at = Some(now)]

\* Lines 140-143: the job record after a successful transcription.
MarkCompleted(js, j, now) ==
    [js EXCEPT ![j].status = COMPLETED, ![j].result = Some(Rendered(j)),
               ![j].completed_at = Some(now)]

\* The failure handler with the wrong status constant.
MarkFailedAsProcessing(js, j, msg, now) ==
    [js EXCEPT ![j].status = PROCESSING, ![j].error = Some(msg),
               ![j].completed_at = Some(now)]

\* Lines 146-150: the job record after the transcription raised.
MarkFailed(js, j, msg, now) ==
    [js EXCEPT ![j].status = FAILED, ![j].error = Some(msg),
               ![j].completed_at = Some(now)]

\* A worker that leaves out task_done() after a success.
WorkerCompletedNoAck(t) ==
    /\ task[t].pc = "exec"
    /\ ~task[t].cancel
    /\ Poll(t, MarkCompleted(jobs, task[t].job, clock), clock, unfinished_tasks)
    /\ WorkerFrame

\* whisper_transcribe returns and the worker resumes with the result: lines
\* 140-144, task_done() in the finally clause, and on to the next pass of
\* the loop. (Nothing reads the executor's future between its completion and
\* the worker's resumption, so the two are one step.)
WorkerCompleted(t) ==
    /\ task[t].pc = "exec"
    /\ ~task[t].cancel
    /\ Poll(t, MarkCompleted(jobs, task[t].job, clock), clock,
            unfinished_tasks - 1)
    /\ WorkerFrame

\* A worker without the inner `except Exception`: the error leaves the loop.
WorkerFailedEscapes(t, msg) ==
    /\ task[t].pc = "exec"
    /\ ~task[t].cancel
    /\ EndTask(t, jobs, clock, unfinished_tasks - 1)
    /\ WorkerFrame

\* A worker that puts a failed job back on the queue.
WorkerFailedRetry(t, msg) ==
    /\ task[t].pc = "exec"
    /\ ~task[t].cancel
    /\ queue' = Append(queue, task[t].job)
    /\ jobs' = MarkFailed(jobs, task[t].job, msg, clock)
    /\ task' = [task EXCEPT ![t] = [pc |-> "get_ready", job |-> 0, cancel |-> FALSE]]
    /\ UNCHANGED <<unfinished_tasks, putters, getters, submit, clock, deq, calls>>
    /\ WorkerFrame

\* whisper_transcribe raises and the worker resumes with the exception:
\* lines 146-151, task_done(), and on to the next pass of the loop.
WorkerFailed(t, msg) ==
    /\ task[t].pc = "exec"
    /\ ~task[t].cancel
    /\ Poll(t, MarkFailed(jobs, task[t].job, msg, clock), clock,
            unfinished_tasks - 1)
    /\ WorkerFrame

\* The worker resumes with CancelledError at its await (lines 159-162). In
\* the executor await the inner `except Exception` does not catch it: only
\* the finally clause runs, and the job record is left as it is. A task
\* cancelled before its first run never enters the loop. A cancelled getter
\* that had been woken passes the wake-up on.
WorkerCancelled(t) ==
    /\ Live(t)
    /\ task[t].cancel
    /\ task' = [u \in TaskIds |->
                  IF u = t
                  THEN [pc |-> "ended", job |-> 0, cancel |-> FALSE]
                  ELSE IF /\ task[t].pc = "get_ready"
                          /\ queue # <<>>
                          /\ getters # <<>>
                          /\ u = Head(getters)
                  THEN [task[u] EXCEPT !.pc = "get_ready"]
                  ELSE task[u]]
    /\ getters' = IF task[t].pc = "get_ready" /\ queue # <<>> /\ getters # <<>>
                  THEN Tail(getters)
                  ELSE getters
    /\ unfinished_tasks' = IF task[t].pc = "exec"
                           THEN unfinished_tasks - 1
                           ELSE unfinished_tasks
    /\ UNCHANGED <<num_workers, maxsize, is_running, workers, jobs, queue,
                   putters, ntasks, submit, stops, clock, deq, calls, svars, fvars>>

\* ------------------------------------------------------------ start / stop
NewTasks == (ntasks + 1)..(ntasks + num_workers)

\* start(): lines 42-48.
Start ==
    /\ IF is_running
       THEN UNCHANGED <<is_running, workers, task, ntasks>>
       ELSE /\ ntasks + num_workers <= MaxTasks
            /\ is_running' = TRUE
            /\ workers' = workers \o [i \in 1..num_workers |-> ntasks + i]
            /\ task' = [t \in TaskIds |->
                          IF t \in NewTasks
                          THEN [pc |-> "new", job |-> 0, cancel |-> FALSE]
                          ELSE task[t]]
            /\ ntasks' = ntasks + num_workers
    /\ UNCHANGED <<num_workers, maxsize, jobs, queue, unfinished_tasks, putters,
                   getters, submit, stops, clock, deq, calls, svars, fvars>>

\* stop() up to its await: lines 53-56. cancel() on a task still waiting on a
\* getter cancels that future, so no put can wake it any more. gather() of no
\* task is already done; otherwise stop() suspends until every task of the
\* list as it is now has ended.
StopCall ==
    /\ is_running' = FALSE
    /\ task' = [t \in TaskIds |->
                  IF t \in Range(workers) /\ Live(t)
                  THEN [task[t] EXCEPT !.cancel = TRUE]
                  ELSE task[t]]
    /\ getters' = Without(getters, Range(workers))
    /\ IF workers = <<>>
       THEN UNCHANGED <<workers, stops>>
       ELSE /\ stops' = stops \cup {Range(workers)}
            /\ UNCHANGED workers
    /\ UNCHANGED <<num_workers, maxsize, jobs, queue, unfinished_tasks, putters,
                   ntasks, submit, clock, deq, calls, svars, fvars>>

\* stop() after its await: line 57.
StopReturn(S) ==
    /\ S \in stops
    /\ \A t \in S : task[t].pc = "ended"
    /\ workers' = <<>>
    /\ stops' = stops \ {S}
    /\ UNCHANGED <<num_workers, maxsize, is_running, jobs, queue,
                   unfinished_tasks, putters, getters, task, ntasks, submit,
                   clock, deq, calls, svars, fvars>>

\* ------------------------------------------------------------ get_job_status
\* get_job_status with `else` for the `elif` of line 92.
get_job_status_else(job_id) ==
    IF job_id \notin DOMAIN jobs
    THEN NotFound
    ELSE LET job == jobs[job_id]
             status_info == [job_id |-> job_id, status |-> job.status,
                             started_at |-> job.started_at,
                             completed_at |-> job.completed_at]
         IN  IF job.status = COMPLETED
             THEN status_info @@ ("result" :> job.result)
             ELSE status_info @@ ("error" :> job.error)

\* Lines 77-95, without the fields NewJob leaves out.
get_job_status(job_id) ==
    IF job_id \notin DOMAIN jobs
    THEN NotFound
    ELSE LET job == jobs[job_id]
             status_info == [job_id |-> job_id, status |-> job.status,
                             started_at |-> job.started_at,
                             completed_at |-> job.completed_at]
         IN  IF job.status = COMPLETED
             THEN status_info @@ ("result" :> job.result)
             ELSE IF job.status = FAILED
             THEN status_info @@ ("error" :> job.error)
             ELSE status_info

\* A status call, for a registered id or for one that is not (Next asks for
\* every registered id and for the first unused one): it writes nothing.
GetJobStatus(job_id) ==
    /\ get_job_status(job_id) \in {NotFound, get_job_status(job_id)}
    /\ UNCHANGED vars

\* ------------------------------------------------------------ get_queue_info
CountStatus(st) == Cardinality({j \in Registered : jobs[j].status = st})

\* get_queue_info with the pending count read off the queue.
get_queue_info_qsize ==
    [workers |-> num_workers,
     queue_size |-> Len(queue),
     max_queue_size |-> maxsize,
     total_jobs |-> Len(jobs),
     pending |-> Len(queue),
     processing |-> CountStatus(PROCESSING),
     completed |-> CountStatus(COMPLETED),
     failed |-> CountStatus(FAILED)]

\* Lines 99-113.
get_queue_info ==
    [workers |-> num_workers,
     queue_size |-> Len(queue),
     max_queue_size |-> maxsize,
     total_jobs |-> Len(jobs),
     pending |-> CountStatus(PENDING),
     processing |-> CountStatus(PROCESSING),
     completed |-> CountStatus(COMPLETED),
     failed |-> CountStatus(FAILED)]

\* A call of get_queue_info: it writes nothing.
GetQueueInfo ==
    /\ get_queue_info.total_jobs = Len(jobs)
    /\ UNCHANGED vars

\* ------------------------------------------------------------ main.py
\* The request is still being handled: no response yet.
NoResponse == [status_code |-> 0]

\* POST /transcribe/vtt for a supported file, main.py:85-105: the response to
\* the request whose submit_job call registered job j. The handler awaits
\* submit_job; it answers 202 with the job id once that returns, and 503 if
\* it raises an exception that says "Queue is full".
transcribe_audio_vtt_only(j) ==
    IF submit[j] = "returned"
    THEN [status_code |-> 202, job_id |-> j, status |-> "pending"]
    ELSE IF submit[j] = "raised"
    THEN [status_code |-> 503, detail |-> "Server is busy. Please try again later."]
    ELSE NoResponse

\* GET /transcribe/result/{job_id}, main.py:120-138.
get_job_result(job_id) ==
    LET job_status == get_job_status(job_id) IN
    IF job_status = NotFound
    THEN [status_code |-> 404, detail |-> "Job not found"]
    ELSE IF job_status.status = PENDING
    THEN [status_code |-> 202, detail |-> "Job is still pending"]
    ELSE IF job_status.status = PROCESSING
    THEN [status_code |-> 202, detail |-> "Job is still processing"]
    ELSE IF job_status.status = FAILED
    THEN [status_code |-> 500, detail |-> <<"Job failed: ", job_status.error>>]
    ELSE [status_code |-> 200, content |-> job_status.result]

\* A result request, for a registered id or for one that is not: it writes
\* nothing.
GetJobResult(job_id) ==
    /\ get_job_result(job_id).status_code \in {200, 202, 404, 500}
    /\ UNCHANGED vars

\* ------------------------------------------------------------ segments_to_subtitle
\* A count of the segments that have words.
AddWordsPerSegment(count, words_len) == IF words_len > 0 THEN count + 1 ELSE count

\* Line 81: word_count += len(segment.words)
AddWords(count, words_len) == count + words_len

\* The guard without the tests of the times and of the trimmed text.
EmittableLax(start, end, text) == start <= end /\ text # <<>>

\* The guard of lines 104 and 125.
Emittable(start, end, text) == start < end /\ Strip(text) # <<>>

\* A word token that is one stop character and nothing else.
StopOnly(text) == Len(text) = 1 /\ end_with_stop_char(text)

\* The word tokens ws (texts, in order, starting on an empty buffer) end with
\* a token that closes a cue: it ends with a stop character and line 100
\* leaves text in the buffer, which it does unless every token of ws is a
\* stop character alone.
Closes(ws) ==
    /\ ws # <<>>
    /\ end_with_stop_char(ws[Len(ws)])
    /\ \E i \in DOMAIN ws : ~StopOnly(ws[i])

\* The input is in time order up to the word w of the raw segment seg: w
\* does not begin before the word before it ended, and lies within seg.
InOrder(seg, w) ==
    /\ last_end <= w.start
    /\ seg.start <= w.start
    /\ w.end <= seg.end

\* `for segment in segments`: the next raw segment is drawn, lines 81-90. A
\* segment without words goes straight to the `continue` of line 123.
NextSegment(seg) ==
    /\ s_pc = "segment"
    /\ nsegments < MaxSegments
    /\ words_seen + seg.words_len <= MaxWords
    /\ segment' = IF seg.words_len > 0 THEN seg ELSE segment
    /\ nsegments' = nsegments + 1
    /\ word_count' = AddWords(word_count, seg.words_len)
    /\ words_idx' = 0
    /\ word_pos' = 0
    /\ seg_start' = 0
    /\ seg_end' = 0
    /\ seg_text' = <<>>
    /\ is_segmented' = IF seg.words_len > 0 THEN FALSE ELSE is_segmented
    /\ s_pc' = IF seg.words_len > 0 THEN "word" ELSE "segment"
    /\ acc_words' = <<>>
    /\ acc_start' = 0
    /\ kept_start' = 0
    /\ in_order' = (in_order /\ last_end <= seg.start)
    /\ UNCHANGED <<subtitles, words_seen, last_end>>
    /\ UNCHANGED <<qvars, fvars>>

\* One pass of `for word in segment.words`, lines 92-120. The `continue` of
\* line 102 skips the reset of lines 113-114, the boundary adjustment of
\* lines 116-119 and the increment of words_idx.
WordStep(word) ==
    /\ s_pc = "word"
    /\ LET start1 == IF ~is_segmented THEN word.start ELSE seg_start
           end1 == word.end
           text1 == seg_text \o word.word
           stop == end_with_stop_char(word.word)
           text2 == IF stop THEN DropLast(text1) ELSE text1
           skip == stop /\ text2 = <<>>
           closed == stop /\ ~skip
           emit == closed /\ Emittable(start1, end1, text2)
       IN  /\ subtitles' = IF emit
                           THEN Append(subtitles, Cue(text2, start1, end1))
                           ELSE subtitles
           /\ seg_text' = IF closed THEN <<>> ELSE text2
           /\ is_segmented' = ~closed
           /\ seg_start' = IF ~skip /\ words_idx = 0 /\ segment.start < word.start
                           THEN word.start
                           ELSE start1
           /\ seg_end' = IF /\ ~skip
                            /\ words_idx = segment.words_len - 1
                            /\ segment.end > word.end
                         THEN word.end
                         ELSE end1
           /\ words_idx' = IF skip THEN words_idx ELSE words_idx + 1
    /\ word_pos' = word_pos + 1
    /\ words_seen' = words_seen + 1
    /\ acc_words' = IF Closes(acc_words)
                     THEN <<word.word>>
                     ELSE Append(acc_words, word.word)
    /\ acc_start' = IF acc_words = <<>> \/ Closes(acc_words)
                     THEN word.start
                     ELSE acc_start
    /\ kept_start' = IF \/ Closes(acc_words)
                         \/ \A i \in DOMAIN acc_words : StopOnly(acc_words[i])
                      THEN IF StopOnly(word.word) THEN 0 ELSE word.start
                      ELSE kept_start
    /\ last_end' = word.end
    /\ in_order' = (in_order /\ InOrder(segment, word))
    /\ s_pc' = IF word_pos + 1 = segment.words_len THEN "after" ELSE "word"
    /\ UNCHANGED <<segment, word_count, nsegments>>
    /\ UNCHANGED <<qvars, fvars>>

\* An end of the inner loop that drops the remainder of the segment.
AfterWordsSilent ==
    /\ s_pc = "after"
    /\ s_pc' = "segment"
    /\ segment' = [start |-> 0, end |-> 0, words_len |-> 0]
    /\ word_pos' = 0
    /\ words_idx' = 0
    /\ seg_start' = 0
    /\ seg_end' = 0
    /\ seg_text' = <<>>
    /\ is_segmented' = FALSE
    /\ UNCHANGED <<subtitles, word_count, nsegments, words_seen, acc_words,
                   acc_start, kept_start, last_end, in_order>>
    /\ UNCHANGED <<qvars, fvars>>

\* After the inner loop, lines 122-128: the remainder of the segment. The
\* loop locals are dead from here on (lines 82-90 assign them anew before
\* the next pass reads them), so they are put back to their values of
\* lines 82-87 at once.
AfterWords ==
    /\ s_pc = "after"
    /\ subtitles' = IF seg_text # <<>> /\ Emittable(seg_start, seg_end, seg_text)
                    THEN Append(subtitles, Cue(seg_text, seg_start, seg_end))
                    ELSE subtitles
    /\ s_pc' = "segment"
    /\ segment' = [start |-> 0, end |-> 0, words_len |-> 0]
    /\ word_pos' = 0
    /\ words_idx' = 0
    /\ seg_start' = 0
    /\ seg_end' = 0
    /\ seg_text' = <<>>
    /\ is_segmented' = FALSE
    /\ UNCHANGED <<word_count, nsegments, words_seen, acc_words, acc_start,
                   kept_start, last_end, in_order>>
    /\ UNCHANGED <<qvars, fvars>>

\* The input is exhausted: line 130 returns (subtitles, word_count).
Return ==
    /\ s_pc = "segment"
    /\ s_pc' = "done"
    /\ UNCHANGED <<segment, word_pos, subtitles, word_count, words_idx,
                   seg_start, seg_end, seg_text, is_segmented, nsegments,
                   words_seen, acc_words, acc_start, kept_start, last_end, in_order>>
    /\ UNCHANGED <<qvars, fvars>>

\* ------------------------------------------------------------ _seconds_to_time
\* Python floats are IEEE 754 doubles: 53 significant bits, every operation
\* rounded to nearest, ties to even. A time of t milliseconds reaches
\* _seconds_to_time as the double nearest t/1000, which is m * 2^(-scale)
\* for the integer m nearest t * 2^scale / 1000 with 2^52 <= m <= 2^53. The
\* double is kept here as the exact number (ms - lost / 2^scale) / 1000,
\* where lost = t * 2^scale - 1000 * m is what the rounding of t/1000 took
\* away (-500 <= lost <= 500; lost > 0 when the double is below t/1000).
RECURSIVE Pow2(_)
Pow2(n) == IF n = 0 THEN 1 ELSE 2 * Pow2(n - 1)

RECURSIVE Log2Floor(_)
Log2Floor(n) == IF n < 2 THEN 0 ELSE 1 + Log2Floor(n \div 2)

RECURSIVE ShiftUp(_, _)
ShiftUp(t, n) == IF Pow2(n) * t >= 1000 THEN n ELSE ShiftUp(t, n + 1)

\* The binary exponent of t/1000, for t >= 1.
BinExp(t) == IF t >= 1000 THEN Log2Floor(t \div 1000) ELSE 0 - ShiftUp(t, 0)

\* 2^n modulo 2000.
RECURSIVE PowMod2(_)
PowMod2(n) == IF n = 0 THEN 1 ELSE (2 * PowMod2(n - 1)) % 2000

\* The double nearest t/1000.
FloatOfMillis(t) ==
    IF t = 0
    THEN [ms |-> 0, lost |-> 0, scale |-> 0]
    ELSE LET s == 52 - BinExp(t)
             rem2 == ((t % 2000) * PowMod2(s)) % 2000
             rem == rem2 % 1000
         IN  [ms |-> t,
              lost |-> IF rem < 500 THEN rem
                       ELSE IF rem > 500 THEN rem - 1000
                       ELSE IF rem2 >= 1000 THEN 0 - 500 ELSE 500,
              scale |-> s]

\* floor(1000 * x), exactly.
FloorMs(x) == IF x.lost > 0 THEN x.ms - 1 ELSE x.ms

\* int(x // n) for a whole number n of seconds.
IntFloorDiv(x, n) == FloorMs(x) \div (1000 * n)

\* x % n: the remainder of two doubles is exact.
FloatMod(x, n) == [x EXCEPT !.ms = x.ms - 1000 * n * IntFloorDiv(x, n)]

\* int(x): truncation.
IntOf(x) == FloorMs(x) \div 1000

\* int(x * 1000). The exact product ms - lost / 2^scale is rounded to a
\* double before int() truncates it. The integer ms is a double; when the
\* product is below it (lost > 0), the product rounds up to ms only if it is
\* no further from ms than half the gap between ms and the double before it,
\* which is 2^(k - 53) with k the binary exponent of the doubles below ms.
IntTimes1000(x) ==
    IF x.lost <= 0
    THEN x.ms
    ELSE LET k == IF Pow2(Log2Floor(x.ms)) = x.ms
                  THEN Log2Floor(x.ms) - 1
                  ELSE Log2Floor(x.ms)
             d == k - 53 + x.scale
         IN  IF d >= 0 /\ (d >= 9 \/ x.lost <= Pow2(d)) THEN x.ms ELSE x.ms - 1

DigitChars == <<"0", "1", "2", "3", "4", "5", "6", "7", "8", "9">>

\* "{:d}".format(n)
RECURSIVE Decimal(_)
Decimal(n) ==
    IF n < 10
    THEN <<DigitChars[n + 1]>>
    ELSE Decimal(n \div 10) \o <<DigitChars[(n % 10) + 1]>>

\* "{:0wd}".format(n): zeros on the left up to width w.
ZeroPad(n, w) ==
    LET d == Decimal(n) IN
    [i \in 1..(IF Len(d) < w THEN w - Len(d) ELSE 0) |-> "0"] \o d

\* Lines 135-142, on a double and a separator.
seconds_to_time(secs, sep) ==
    LET hours == IntFloorDiv(secs, 3600)
        secs1 == FloatMod(secs, 3600)
        minutes == IntFloorDiv(secs1, 60)
        milliseconds == IntTimes1000(secs1) % 1000
        secs2 == IntOf(FloatMod(secs1, 60))
    IN  ZeroPad(hours, 2) \o <<":">> \o ZeroPad(minutes, 2) \o <<":">>
           \o ZeroPad(secs2, 2) \o <<sep>> \o ZeroPad(milliseconds, 3)

\* seconds_to_vtt_time and seconds_to_srt_time, lines 144-150.
seconds_to_vtt_time(secs) == seconds_to_time(secs, ".")
seconds_to_srt_time(secs) == seconds_to_time(secs, ",")

\* The times the formatter is given, in milliseconds.
Millis ==
    {h * 3600000 + m * 60000 + sc * 1000 + ms :
        h \in 0..MaxHours, m \in {0, 1, 59}, sc \in {0, 1, 59},
        ms \in {0, 1, 2, 123, 999}}

\* No call yet.
TInit ==
    /\ seconds = FloatOfMillis(0)
    /\ separator = "."
    /\ time_str = None

\* A call of seconds_to_vtt_time or seconds_to_srt_time.
SecondsToTime(t, sep) ==
    /\ seconds' = FloatOfMillis(t)
    /\ separator' = sep
    /\ time_str' = Some(IF sep = "."
                        THEN seconds_to_vtt_time(FloatOfMillis(t))
                        ELSE seconds_to_srt_time(FloatOfMillis(t)))
    /\ UNCHANGED <<qvars, svars, rvars, cvars>>

\* ------------------------------------------------------------ _format_subtitles
\* Strings are sequences of characters; "\n" is the newline.
NL == "\n"

\* str.upper on one character.
Upper(c) == IF c = "a" THEN "A" ELSE c

\* Lines 152-155.
capitalize_text(text) ==
    LET t == Strip(text) IN
    IF t # <<>> THEN <<Upper(Head(t))>> \o Tail(t) ELSE t

Arrow == <<" ", "-", "-", ">", " ">>

\* A cue time, a whole number of seconds, as the float the formatter is given.
FloatOfSeconds(n) == FloatOfMillis(1000 * n)

\* Lines 157-162.
format_vtt_segment(text, start_time, end_time) ==
    seconds_to_vtt_time(FloatOfSeconds(start_time)) \o Arrow
       \o seconds_to_vtt_time(FloatOfSeconds(end_time)) \o <<NL>>
       \o capitalize_text(text) \o <<NL>>

\* Lines 164-169.
format_srt_segment(index, text, start_time, end_time) ==
    Decimal(index) \o <<NL>>
       \o seconds_to_srt_time(FloatOfSeconds(start_time)) \o Arrow
       \o seconds_to_srt_time(FloatOfSeconds(end_time)) \o <<NL>>
       \o capitalize_text(text) \o <<NL>>

\* "\n".join(strs)
RECURSIVE Join(_)
Join(strs) ==
    IF strs = <<>> THEN <<>>
    ELSE IF Len(strs) = 1 THEN strs[1]
    ELSE strs[1] \o <<NL>> \o Join(Tail(strs))

WEBVTT == <<"W", "E", "B", "V", "T", "T">>

\* The cues the renderer is given: any text, blank and empty ones too.
RTexts == {<<>>, <<" ">>, <<"a">>, <<" ", "a">>}
RCues == {Cue(x, s, e) : x \in RTexts, s \in Times, e \in Times}

\* No call yet.
RInit ==
    /\ r_pc = "idle"
    /\ format = "vtt"
    /\ cues = <<>>
    /\ items = <<>>
    /\ content = None

\* _format_subtitles is called: line 56.
FormatBegin(fmt) ==
    /\ r_pc = "idle"
    /\ r_pc' = "loop"
    /\ format' = fmt
    /\ items' = <<>>
    /\ UNCHANGED <<cues, content>>
    /\ UNCHANGED <<qvars, svars, tvars, cvars>>

\* One pass of `for idx, subtitle in enumerate(subtitles, start=1)`, lines
\* 58-69: idx counts every element, skipped or not.
FormatCue(subtitle) ==
    /\ r_pc = "loop"
    /\ Len(cues) < MaxCues
    /\ LET idx == Len(cues) + 1
           text == subtitle.msg
       IN  items' = IF text = <<>>
                    THEN items
                    ELSE IF format = "vtt"
                    THEN Append(items, format_vtt_segment(
                             text, subtitle.start_time, subtitle.end_time))
                    ELSE Append(items, format_srt_segment(
                             idx, text, subtitle.start_time, subtitle.end_time))
    /\ cues' = Append(cues, subtitle)
    /\ UNCHANGED <<r_pc, format, content>>
    /\ UNCHANGED <<qvars, svars, tvars, cvars>>

\* Lines 71-74.
FormatReturn ==
    /\ r_pc = "loop"
    /\ r_pc' = "done"
    /\ content' = Some(IF format = "vtt"
                       THEN WEBVTT \o <<NL, NL>> \o Join(items)
                       ELSE Join(items))
    /\ UNCHANGED <<format, cues, items>>
    /\ UNCHANGED <<qvars, svars, tvars, cvars>>

\* ------------------------------------------------------------ cli.main
\* The command lines tried: the input file there or not, -o absent or a
\* path with some extension, -f absent or one of its choices, -l, --no-vad
\* and -q given or not.
OutputPaths ==
    {[stem |-> "output", suffix |-> x] : x \in {".vtt", ".srt", ".VTT", ".SRT", ".txt"}}

CommandLines ==
    [input_is_file : BOOLEAN,
     output : {None} \cup {Some(o) : o \in OutputPaths},
     format : {None, Some("vtt"), Some("srt")},
     language : {None, Some("en")},
     no_vad : BOOLEAN,
     quiet : BOOLEAN]

\* main() is entered.
CInit ==
    /\ c_pc = "start"
    /\ argv = None
    /\ args = None
    /\ transcribe_kwargs = None
    /\ written = None

\* parser.parse_args() with the defaults of lines 46-58 (output None,
\* format "vtt"), and the validation of the input path, lines 143-152.
CliParse(av) ==
    /\ c_pc = "start"
    /\ argv' = Some(av)
    /\ args' = Some([output |-> av.output,
                     format |-> IF av.format = None THEN "vtt" ELSE av.format[1],
                     language |-> av.language,
                     no_vad |-> av.no_vad,
                     quiet |-> av.quiet])
    /\ c_pc' = IF av.input_is_file THEN "parsed" ELSE "exit"
    /\ UNCHANGED <<transcribe_kwargs, written>>
    /\ UNCHANGED <<qvars, svars, tvars, rvars>>

\* Lines 173-184: the keyword arguments and the call of transcribe.
CliTranscribe ==
    /\ c_pc = "parsed"
    /\ transcribe_kwargs' =
          Some([format |-> args[1].format, vad_filter |-> ~args[1].no_vad]
                  @@ IF args[1].language # None
                     THEN "language" :> args[1].language[1]
                     ELSE <<>>)
    /\ c_pc' = "transcribed"
    /\ UNCHANGED <<argv, args, written>>
    /\ UNCHANGED <<qvars, svars, tvars, rvars>>

\* Lines 187-203: result["vtt"] or result["srt"] goes to the output file or
\* to stdout.
CliOutput ==
    /\ c_pc = "transcribed"
    /\ written' = Some([key |-> IF args[1].format = "vtt" THEN "vtt" ELSE "srt",
                        to |-> IF args[1].output # None
                               THEN args[1].output
                               ELSE Some("stdout")])
    /\ c_pc' = "done"
    /\ UNCHANGED <<argv, args, transcribe_kwargs>>
    /\ UNCHANGED <<qvars, svars, tvars, rvars>>

\* ------------------------------------------------------------ specification
Init == QInit /\ SInit /\ TInit /\ RInit /\ CInit

Next ==
    \/ SubmitJob
    \/ \E j \in JobIds : SubmitResume(j)
    \/ Start
    \/ StopCall
    \/ \E S \in stops : StopReturn(S)
    \/ \E t \in TaskIds : WorkerBegin(t)
    \/ \E t \in TaskIds : WorkerTimeout(t)
    \/ \E t \in TaskIds : WorkerWake(t)
    \/ \E t \in TaskIds : WorkerCompleted(t)
    \/ \E t \in TaskIds, msg \in ErrMsgs : WorkerFailed(t, msg)
    \/ \E t \in TaskIds : WorkerCancelled(t)
    \/ \E id \in 1..(Len(jobs) + 1) : GetJobStatus(id)
    \/ \E id \in 1..(Len(jobs) + 1) : GetJobResult(id)
    \/ GetQueueInfo

Spec == Init /\ [][Next]_vars

\* The event loop runs every coroutine that is ready: a new worker task
\* (create_task, line 47), a worker or a submit call whose future was
\* completed, and a worker whose wait_for timer of 1.0 s (line 122) ran out.
\* The executor call of lines 133-138 returns or raises.
Fairness ==
    /\ \A t \in TaskIds : WF_vars(WorkerBegin(t))
    /\ \A t \in TaskIds : WF_vars(WorkerTimeout(t))
    /\ \A t \in TaskIds : WF_vars(WorkerWake(t))
    /\ \A t \in TaskIds :
          WF_vars(WorkerCompleted(t) \/ \E msg \in ErrMsgs : WorkerFailed(t, msg))
    /\ \A t \in TaskIds : WF_vars(WorkerCancelled(t))
    /\ \A j \in JobIds : WF_vars(SubmitResume(j))

LiveSpec == Spec /\ Fairness

\* The segmenter alone, over every input within the bounds; the queue
\* manager stays as constructed.
SegInit == Init /\ num_workers = 1 /\ maxsize = 1

SegNext ==
    \/ \E seg \in Segments : NextSegment(seg)
    \/ \E word \in Words : WordStep(word)
    \/ AfterWords
    \/ Return

SegSpec == SegInit /\ [][SegNext]_vars

\* _seconds_to_time alone.
TimeInit == Init /\ num_workers = 1 /\ maxsize = 1

TimeNext == \E t \in Millis, sep \in {".", ","} : SecondsToTime(t, sep)

TimeSpec == TimeInit /\ [][TimeNext]_vars

\* _format_subtitles alone.
RenderInit == Init /\ num_workers = 1 /\ maxsize = 1

RenderNext ==
    \/ \E fmt \in {"vtt", "srt"} : FormatBegin(fmt)
    \/ \E subtitle \in RCues : FormatCue(subtitle)
    \/ FormatReturn

RenderSpec == RenderInit /\ [][RenderNext]_vars

\* cli.main alone.
CliInit == Init /\ num_workers = 1 /\ maxsize = 1

CliNext ==
    \/ \E av \in CommandLines : CliParse(av)
    \/ CliTranscribe
    \/ CliOutput

CliSpec == CliInit /\ [][CliNext]_vars

\* ------------------------------------------------------------ the claims
ProcessingJobs == {j \in Registered : jobs[j].status = PROCESSING}

\* C1: admission control. With capacity N >= 1, while nothing has been
\* dequeued, the first N submit calls return a job id, and the (N+1)th is
\* rejected: the caller is told, and its job is Failed with the queue-full
\* error and is never in the queue.
C1_AdmissionControl ==
    (maxsize >= 1 /\ deq = <<>>) =>
        \A j \in Registered :
            /\ j <= maxsize => submit[j] = "returned"
            /\ j = maxsize + 1 =>
                  /\ submit[j] = "raised"
                  /\ jobs[j].status = FAILED
                  /\ jobs[j].error = Some(QueueFullError)
                  /\ j \notin Range(queue)

\* C2: lifecycle monotonicity. Once a job is Completed or Failed, no step
\* changes its record (status, result, error, started_at, completed_at), so
\* get_job_status returns the same snapshot ever after.
C2_TerminalFrozen ==
    [][\A j \in Registered :
          Terminal(j) => /\ jobs'[j] = jobs[j]
                         /\ get_job_status(j)' = get_job_status(j)]_vars

\* A job is terminal, and since then another job was taken and finished and
\* the pool was stopped.
C2_Witness ==
    \E j, k \in Registered :
        /\ Terminal(j)
        /\ Terminal(k)
        /\ jobs[k].started_at[1] >= jobs[j].completed_at[1]
        /\ ~is_running
        /\ \A t \in TaskIds : ~Live(t)

\* C3 as stated: the number of Processing jobs never exceeds num_workers.
C3_ProcessingAtMostW == Cardinality(ProcessingJobs) <= num_workers

\* C3, amended: the number of Processing jobs never exceeds the number of
\* worker tasks start() has spawned so far, which is num_workers until a
\* start() follows a stop(). (A job whose worker stop() cancelled stays
\* Processing and is not taken into account by the next pool.)
C3_ProcessingAtMostSpawned == Cardinality(ProcessingJobs) <= ntasks

\* More jobs are Processing than the pool has workers: one of them was
\* abandoned by stop(), and every spawned task has its job.
C3_Witness ==
    /\ Cardinality(ProcessingJobs) > num_workers
    /\ Cardinality(ProcessingJobs) = ntasks
    /\ \E t \in TaskIds : task[t].pc = "exec"

\* C4: strict FIFO. Job ids are given in the order the submit calls start,
\* so jobs are dequeued in increasing order of id.
C4_StrictFIFO ==
    \A i, k \in DOMAIN deq : i < k => deq[i] < deq[k]

\* C5 as stated: the queue never holds more than the capacity it was
\* constructed with, whatever that capacity is.
C5_QueueBound == Len(queue) <= maxsize

\* C5, amended: for a capacity of at least 1 the queue never holds more than
\* the capacity. (A capacity of 0 or less makes the queue unbounded.)
C5_QueueBoundPositive == maxsize >= 1 => Len(queue) <= maxsize

\* The queue is at its capacity and a submit call has found it so.
C5_Witness ==
    /\ maxsize >= 1
    /\ Len(queue) = maxsize
    /\ putters # <<>>

\* C6: status snapshot. get_job_status answers not-found exactly for the ids
\* no submit call registered; otherwise the snapshot has a result field
\* exactly when the job is Completed and an error field exactly when it is
\* Failed, each holding the job's own value. (GetJobStatus leaves every
\* variable unchanged.)
C6_StatusSnapshot ==
    \A id \in 1..(MaxJobs + 1) :
        LET ret == get_job_status(id) IN
        /\ (ret = NotFound) <=> (id \notin JobIds \/ submit[id] = "none")
        /\ ret # NotFound =>
              /\ ret.status = jobs[id].status
              /\ ("result" \in DOMAIN ret) <=> (jobs[id].status = COMPLETED)
              /\ ("error" \in DOMAIN ret) <=> (jobs[id].status = FAILED)
              /\ "result" \in DOMAIN ret => ret.result = jobs[id].result
              /\ "error" \in DOMAIN ret => ret.error = jobs[id].error

\* Every kind of answer can be asked for: a Completed job, a Failed one, one
\* that is neither, and an id that was never registered.
C6_Witness ==
    /\ \E j \in Registered : "result" \in DOMAIN get_job_status(j)
    /\ \E j \in Registered : "error" \in DOMAIN get_job_status(j)
    /\ \E j \in Registered : DOMAIN get_job_status(j) \cap {"result", "error"} = {}
    /\ get_job_status(Len(jobs) + 1) = NotFound

\* C7: failure isolation. When the transcription of a worker's job raises,
\* the job becomes Failed with the message stored and completed_at set, and
\* the worker goes round its loop again: while the pool is running it is
\* waiting for a job or has already taken the next one of the queue.
C7_FailureIsolation ==
    [][\A t \in TaskIds, msg \in ErrMsgs :
          WorkerFailed(t, msg) =>
              LET j == task[t].job IN
              /\ jobs'[j].status = FAILED
              /\ jobs'[j].error = Some(msg)
              /\ jobs'[j].completed_at # None
              /\ is_running => task'[t].pc \in {"get_wait", "exec"}
              /\ (is_running /\ queue # <<>>) =>
                    /\ task'[t].pc = "exec"
                    /\ task'[t].job = Head(queue)]_vars

\* The only worker there has ever been failed a job and took another one
\* after that.
C7_Witness ==
    /\ ntasks = 1
    /\ \E j, k \in Registered :
          /\ jobs[j].status = FAILED
          /\ jobs[k].started_at # None
          /\ jobs[k].started_at[1] >= jobs[j].completed_at[1]

C9_CuesWellFormed ==
    \A i \in DOMAIN subtitles :
        /\ subtitles[i].start_time < subtitles[i].end_time
        /\ Strip(subtitles[i].msg) # <<>>

\* The segmenter returned fewer cues than it was given words, and one of
\* the cues keeps a blank inside its text.
C9_Witness ==
    /\ s_pc = "done"
    /\ Len(subtitles) = MaxWords - 1
    /\ words_seen = MaxWords
    /\ \E i \in DOMAIN subtitles : subtitles[i].msg # Strip(subtitles[i].msg)

\* C10: word count. The count returned is the number of word tokens of all
\* the input segments, whatever cues were emitted; while a segment is being
\* read it is the number of tokens read plus those still to come.
C10_WordCount ==
    /\ s_pc = "done" => word_count = words_seen
    /\ s_pc = "word" => word_count = words_seen + (segment.words_len - word_pos)
    /\ s_pc \in {"segment", "after"} => word_count = words_seen

\* Two segments, MaxWords tokens in all and no cue.
C10_Witness ==
    /\ s_pc = "done"
    /\ nsegments = 2
    /\ word_count = MaxWords
    /\ subtitles = <<>>

\* The worker loops that are running and have not been cancelled.
LiveLoops == {t \in TaskIds : Live(t) /\ ~task[t].cancel}

\* C17: submit never waits. Every submit call has returned a job id or
\* reported the rejection by the end of the step in which it was made; none
\* is ever suspended waiting for a slot of the queue.
C17_SubmitNeverWaits ==
    \A j \in JobIds : submit[j] \in {"none", "returned", "raised"}

\* C18: legal transitions only. A job is registered as Pending, and every
\* later change of its status is Pending->Processing (by the worker that
\* dequeues it in that step), Processing->Completed, Processing->Failed, or
\* Pending->Failed (only when its submit call reports the rejection).
C18_LegalTransitions ==
    [][/\ \A j \in DOMAIN jobs' \ DOMAIN jobs : jobs'[j].status = PENDING
       /\ \A j \in Registered :
             jobs'[j].status # jobs[j].status =>
                /\ <<jobs[j].status, jobs'[j].status>> \in
                      {<<PENDING, PROCESSING>>, <<PROCESSING, COMPLETED>>,
                       <<PROCESSING, FAILED>>, <<PENDING, FAILED>>}
                /\ jobs[j].status = PENDING /\ jobs'[j].status = PROCESSING =>
                      /\ deq' = Append(deq, j)
                      /\ \E t \in TaskIds :
                            task'[t].pc = "exec" /\ task'[t].job = j
                /\ jobs[j].status = PENDING /\ jobs'[j].status = FAILED =>
                      submit'[j] = "raised"]_vars

\* One job went Pending->Processing->Completed and another
\* Pending->Processing->Failed, and a third is still Pending.
C18_Witness ==
    \E i, j, k \in Registered :
        /\ jobs[i].status = COMPLETED
        /\ jobs[j].status = FAILED
        /\ jobs[k].status = PENDING
        /\ i \in Range(deq)
        /\ j \in Range(deq)

\* C19: worker count. Whenever the pool is marked running and no stop() is
\* in progress, exactly num_workers worker loops are live and the workers
\* list holds exactly those loops.
C19_WorkerCount ==
    (is_running /\ stops = {}) =>
        /\ Cardinality(LiveLoops) = num_workers
        /\ Range(workers) = LiveLoops

\* C20: shutdown. Once stop() has returned and until start() is called, no
\* worker loop is live and no step changes a job record.
C20_Shutdown ==
    [][(~is_running /\ stops = {}) =>
          /\ \A t \in TaskIds : ~Live(t)
          /\ \A j \in Registered : jobs'[j] = jobs[j]]_vars

\* C13: time formatting. A time of t milliseconds is rendered as
\* HH:MM:SS<sep>mmm with HH = t div 3600000, MM = (t mod 3600000) div 60000,
\* SS = (t mod 60000) div 1000 and mmm = t mod 1000, zero-padded to 2, 2, 2
\* and 3 digits.
C13_TimeFormat ==
    time_str # None =>
        LET t == seconds.ms IN
        time_str[1] =
            ZeroPad(t \div 3600000, 2) \o <<":">>
               \o ZeroPad((t % 3600000) \div 60000, 2) \o <<":">>
               \o ZeroPad((t % 60000) \div 1000, 2) \o <<separator>>
               \o ZeroPad(t % 1000, 3)

\* The lines of a string, each without its newline.
RECURSIVE Lines(_)
Lines(str) ==
    IF str = <<>>
    THEN <<>>
    ELSE LET n == CHOOSE i \in 1..(Len(str) + 1) :
                     /\ i = Len(str) + 1 \/ str[i] = NL
                     /\ \A k \in 1..(i - 1) : str[k] # NL
         IN  <<SubSeq(str, 1, n - 1)>> \o Lines(SubSeq(str, n + 1, Len(str)))

\* What a line of the output is.
LineKind(line) ==
    IF line = <<>> THEN "blank"
    ELSE IF line = WEBVTT THEN "header"
    ELSE IF ">" \in Range(line) THEN "time"
    ELSE IF \A i \in DOMAIN line : \E d \in DOMAIN DigitChars : line[i] = DigitChars[d]
    THEN "index"
    ELSE "text"

\* The cues of the input whose text is not empty once trimmed.
Surviving == SelectSeq(cues, LAMBDA c : Strip(c.msg) # <<>>)

\* k blocks of the given lines with one blank line between two of them.
RECURSIVE Blocks(_, _)
Blocks(k, block) ==
    IF k = 0 THEN <<>>
    ELSE IF k = 1 THEN block
    ELSE block \o <<"blank">> \o Blocks(k - 1, block)

\* C11: SRT numbering. The index lines of the blocks rendered in srt format
\* are 1, 2, ..., k in order, k being the number of blocks: a cue that is
\* skipped takes no index.
C11_SrtNumbering ==
    (r_pc = "done" /\ format = "srt") =>
        \A i \in 1..Len(items) :
            Lines(content[1])[4 * (i - 1) + 1] = Decimal(i)

\* C12: renderer skip rule. In both formats the output has a block (a line
\* of times) for each cue whose text is not empty once trimmed, and for no
\* other: a cue of blank or empty text gives none.
C12_SkipRule ==
    r_pc = "done" =>
        LET lines == Lines(content[1]) IN
        Cardinality({i \in DOMAIN lines : LineKind(lines[i]) = "time"})
            = Len(Surviving)

\* C14: output layout. The vtt output is the line WEBVTT and a blank line,
\* also with no cue, then a block of a line of times and a line of text for
\* each surviving cue, in the order of the input, with one blank line
\* between two blocks; the srt output has the same blocks, each with an
\* index line first, and no WEBVTT line.
C14_Layout ==
    r_pc = "done" =>
        LET lines == Lines(content[1])
            kinds == [i \in DOMAIN lines |-> LineKind(lines[i])]
            texts == SelectSeq(lines, LAMBDA l : LineKind(l) = "text")
        IN  /\ kinds = IF format = "vtt"
                       THEN <<"header", "blank">>
                               \o Blocks(Len(Surviving), <<"time", "text">>)
                       ELSE Blocks(Len(Surviving), <<"index", "time", "text">>)
            /\ texts = [i \in DOMAIN Surviving |-> capitalize_text(Surviving[i].msg)]

\* C15: HTTP mapping of job state. The result endpoint answers 404 for an
\* id that was never registered and 202 for a job that is Pending or
\* Processing, and a response has a result body only for a Completed job,
\* the body being the stored text; the submit endpoint answers 503 to a
\* request that found the queue full.
C15_HttpMapping ==
    /\ \A id \in 1..(MaxJobs + 1) :
          LET r == get_job_result(id) IN
          /\ id \notin Registered => r.status_code = 404
          /\ id \in Registered =>
                /\ jobs[id].status \in {PENDING, PROCESSING} => r.status_code = 202
                /\ jobs[id].status = COMPLETED =>
                      r.status_code = 200 /\ r.content = jobs[id].result
          /\ "content" \in DOMAIN r =>
                id \in Registered /\ jobs[id].status = COMPLETED
    /\ \A j \in Registered :
          /\ "content" \notin DOMAIN transcribe_audio_vtt_only(j)
          /\ j \in Range(putters) =>
                transcribe_audio_vtt_only(j).status_code = 503

\* Path.suffix.lower(), for the suffixes of OutputPaths.
LowerSuffix(x) == IF x = ".SRT" THEN ".srt" ELSE IF x = ".VTT" THEN ".vtt" ELSE x

\* C16: CLI format auto-detection. With -o and without --format, the format
\* given to transcribe is the one of the output file's extension, whatever
\* its case: srt for .srt and .SRT, vtt for .vtt and .VTT.
C16_FormatFromExtension ==
    (c_pc \in {"transcribed", "done"} /\ argv[1].output # None
                                      /\ argv[1].format = None) =>
        LET suffix == LowerSuffix(argv[1].output[1].suffix) IN
        /\ suffix = ".srt" => transcribe_kwargs[1].format = "srt"
        /\ suffix = ".vtt" => transcribe_kwargs[1].format = "vtt"

\* The number of task_done() calls so far: every put counted the job in
\* unfinished_tasks, and every job put is in the queue or was dequeued.
Acknowledged == Len(deq) + Len(queue) - unfinished_tasks

\* C21: queue acknowledgement. Every dequeued job is acknowledged to the
\* queue once, when its worker is done with it, be it by success, failure or
\* cancellation: the acknowledgements are as many as the dequeued jobs that
\* no worker still holds, and never more than the dequeues.
C21_AcknowledgedOnce ==
    /\ Acknowledged =
          Cardinality({i \in DOMAIN deq :
                          \A t \in TaskIds :
                              ~(task[t].pc = "exec" /\ task[t].job = deq[i])})
    /\ Acknowledged <= Len(deq)

\* One job succeeded, one failed and one was cancelled by stop(), and all
\* three are acknowledged.
C21_Witness ==
    /\ Acknowledged = 3
    /\ \E i, j, k \in Registered :
          /\ jobs[i].status = COMPLETED
          /\ jobs[j].status = FAILED
          /\ jobs[k].status = PROCESSING

\* C22: job record consistency. Completed: result, started_at and
\* completed_at set, error unset. Failed: error set, result unset.
\* Processing: started_at set, completed_at unset. Pending: started_at,
\* completed_at, result and error all unset.
C22_RecordConsistency ==
    \A j \in Registered :
        LET job == jobs[j] IN
        /\ job.status = COMPLETED =>
              /\ job.result # None
              /\ job.error = None
              /\ job.started_at # None
              /\ job.completed_at # None
        /\ job.status = FAILED => job.error # None /\ job.result = None
        /\ job.status = PROCESSING =>
              job.started_at # None /\ job.completed_at = None
        /\ job.status = PENDING =>
              /\ job.started_at = None
              /\ job.completed_at = None
              /\ job.result = None
              /\ job.error = None

\* A Completed job, a Failed one and one that stop() left in Processing.
C22_Witness ==
    /\ \E j \in Registered : jobs[j].status = COMPLETED
    /\ \E j \in Registered : jobs[j].status = FAILED
    /\ \E j \in Registered :
          jobs[j].status = PROCESSING /\ \A t \in TaskIds : task[t].job # j
    /\ ~is_running

\* C24: queue/JobStore agreement. The jobs held in the queue are the jobs
\* of status Pending, each held once, so that get_queue_info reports a
\* queue_size equal to its pending count.
C24_QueueIsPending ==
    /\ Range(queue) = {j \in Registered : jobs[j].status = PENDING}
    /\ Cardinality(Range(queue)) = Len(queue)
    /\ get_queue_info.queue_size = get_queue_info.pending

\* C25: counter consistency. Every get_queue_info result has
\* pending + processing + completed + failed = total_jobs.
C25_CountersAddUp ==
    LET info == get_queue_info IN
    info.pending + info.processing + info.completed + info.failed
        = info.total_jobs

\* Three jobs, one Pending outside the queue, one Processing, one Failed.
C25_Witness ==
    /\ get_queue_info.total_jobs = 3
    /\ get_queue_info.pending = 1
    /\ get_queue_info.queue_size = 0
    /\ get_queue_info.processing = 1
    /\ get_queue_info.failed = 1


C26_EndWidening ==
    [][(/\ Len(subtitles') > Len(subtitles)
        /\ \/ s_pc = "word" /\ word_pos + 1 = segment.words_len
           \/ s_pc = "after"
        /\ segment.end > last_end')
       => subtitles'[Len(subtitles')].end_time = segment.end]_vars


\* C27: empty-buffer skip. A word that is one stop character, arriving on an
\* empty buffer, emits no cue and leaves the accumulator open; and a cue
\* whose words began with such a word starts where that word starts.
C27_EmptyBufferSkip ==
    [][/\ (s_pc = "word" /\ \A i \in DOMAIN acc_words' : StopOnly(acc_words'[i]))
          => (subtitles' = subtitles /\ is_segmented')
       /\ (Len(subtitles') > Len(subtitles))
          => LET ws == IF s_pc = "word" THEN acc_words' ELSE acc_words
                 start == IF s_pc = "word" THEN acc_start' ELSE acc_start
             IN  StopOnly(ws[1]) =>
                     subtitles'[Len(subtitles')].start_time = start]_vars


\* The texts ws joined in order, nothing between them.
RECURSIVE ConcatWords(_)
ConcatWords(ws) == IF ws = <<>> THEN <<>> ELSE Head(ws) \o ConcatWords(Tail(ws))

\* The words ws without the stop-only words at their head.
RECURSIVE Kept(_)
Kept(ws) == IF ws # <<>> /\ StopOnly(Head(ws)) THEN Kept(Tail(ws)) ELSE ws

\* C28 as stated: cue text is verbatim. The text of every cue is the
\* concatenation of the texts of all the words taken since the previous
\* boundary, less its last character when a stop-terminated word closes the
\* cue and less nothing when the cue is the remainder of a segment.
C28_VerbatimAllWords ==
    [][Len(subtitles') > Len(subtitles) =>
          subtitles'[Len(subtitles')].msg =
              IF s_pc = "word"
              THEN DropLast(ConcatWords(acc_words'))
              ELSE ConcatWords(acc_words)]_vars

\* C28, amended: the same, except that the stop-only words that arrived on
\* the empty buffer (those at the head of the words since the previous
\* boundary) contribute nothing.
C28_Verbatim ==
    [][Len(subtitles') > Len(subtitles) =>
          subtitles'[Len(subtitles')].msg =
              IF s_pc = "word"
              THEN DropLast(ConcatWords(Kept(acc_words')))
              ELSE ConcatWords(Kept(acc_words))]_vars

\* A cue of two words whose text keeps the space it began with.
C28_Witness ==
    \E i \in DOMAIN subtitles : subtitles[i].msg = <<" ", "a">>


\* The words of the segment after its last stop-terminated word, once the
\* inner loop has taken them all.
Remainder == IF Closes(acc_words) THEN <<>> ELSE Kept(acc_words)

\* The step appends one cue, with this text and this start.
OneFinalCue(text, start) ==
    /\ Len(subtitles') = Len(subtitles) + 1
    /\ SubSeq(subtitles', 1, Len(subtitles)) = subtitles
    /\ subtitles'[Len(subtitles')].msg = text
    /\ subtitles'[Len(subtitles')].start_time = start

\* C29 as stated: remainder cue per segment. When the words of a raw segment
\* are used up, the words after its last stop-terminated word give exactly
\* one more cue, with their concatenation as text and starting where the
\* first of them starts, if that text is not blank and that start is before
\* the end of the last word, and no cue otherwise; and nothing of them is
\* left in the accumulator for the next segment.
C29_RemainderFromFirstWord ==
    [][(s_pc = "after" /\ s_pc' # "after") =>
          /\ seg_text' = <<>> /\ ~is_segmented'
          /\ IF Strip(ConcatWords(Remainder)) # <<>> /\ kept_start < last_end
             THEN OneFinalCue(ConcatWords(Remainder), kept_start)
             ELSE subtitles' = subtitles]_vars

\* C29, amended: the same when no stop-only word was skipped on the empty
\* buffer before those words. When one was, there is still at most one more
\* cue, with the same text and none if it is blank, and nothing is left in
\* the accumulator; where that cue starts is the matter of C27.
C29_RemainderCue ==
    [][(s_pc = "after" /\ s_pc' # "after") =>
          /\ seg_text' = <<>> /\ ~is_segmented'
          /\ IF Closes(acc_words) \/ Kept(acc_words) = acc_words
             THEN IF Strip(ConcatWords(Remainder)) # <<>> /\ kept_start < last_end
                  THEN OneFinalCue(ConcatWords(Remainder), kept_start)
                  ELSE subtitles' = subtitles
             ELSE IF Strip(ConcatWords(Remainder)) # <<>>
                  THEN \/ subtitles' = subtitles
                       \/ \E start \in WordTimes :
                              OneFinalCue(ConcatWords(Remainder), start)
                  ELSE subtitles' = subtitles]_vars

\* A raw segment of two words is done: its first word closed a cue and the
\* word after it, the remainder, gave the second cue.
C29_Witness ==
    /\ s_pc = "segment"
    /\ nsegments = 1
    /\ word_count = 2
    /\ acc_words = <<<<"a">>>>
    /\ Len(subtitles) = 2


\* C30: cue ordering. As long as the input has been in time order (every
\* word begins no earlier than the word before it ended, within and across
\* segments, and lies within its own segment, which begins no earlier than
\* the last word before it ended), each cue starts no earlier than the cue
\* before it ended.
C30_CueOrdering ==
    in_order =>
        \A i \in 1..(Len(subtitles) - 1) :
            subtitles[i + 1].start_time >= subtitles[i].end_time

\* An input in time order has given two cues.
C30_Witness ==
    /\ in_order
    /\ s_pc = "done"
    /\ Len(subtitles) = 2

============================================================================
